---- MODULE Spec2Model ----
(***************************************************************************)
(* extract_uncommitted.py: load build/registry.json, project its `servers` *)
(* mapping onto the selection list uncommitted_servers, write the result   *)
(* to build/uncommitted_registry.json and print a two-line summary.        *)
(***************************************************************************)
EXTENDS Integers, Sequences, FiniteSets, TLC

VARIABLES
    uncommitted_servers,   \* the selection list S (a literal in the script)
    inFile,                \* build/registry.json as found on disk
    outFile,               \* build/uncommitted_registry.json on disk
    outFile0,              \* what that file held when the script started
    registry,              \* result of json.load
    uncommitted_registry,  \* the projection under construction
    i,                     \* position of the for loop in uncommitted_servers
    pc,                    \* position of the script
    stderr,                \* warnings printed, in order (one identifier each)
    stdout,                \* summary lines printed
    error,                 \* the uncaught exception, "none" while there is none
    exitCode,              \* process exit status, -1 while running
    trace                  \* I/O events in the order they happened

vars == <<uncommitted_servers, inFile, outFile, outFile0, registry, uncommitted_registry,
          i, pc, stderr, stdout, error, exitCode, trace>>

(* ------------------------------ bounds -------------------------------- *)

\* longest selection list explored
MaxSel == 3

(* ---------------------------- input spaces ---------------------------- *)

Ids == {"a", "b", "c"}

Values == {[v |-> 1], [v |-> 2]}

NoVal == [v |-> 0]

PassFields == {"$schema", "version", "last_updated"}

OutFields == PassFields \cup {"servers"}

output_file == "build/uncommitted_registry.json"

Range(s) == {s[k] : k \in 1..Len(s)}

NoDup(s) == \A m, n \in 1..Len(s) : m # n => s[m] # s[n]

\* non-empty selection lists, duplicates allowed
SelectionLists == UNION {[1..m -> Ids] : m \in 1..MaxSel}

\* key orders of a JSON object over Ids (a dict never repeats a key)
KeyOrders == {s \in UNION {[1..m -> Ids] : m \in 0..Cardinality(Ids)} : NoDup(s)}

(* ------------------------- JSON values of `servers` -------------------- *)

\* a JSON object: ordered keys and their values
JObject(keys, val) == [kind |-> "object", keys |-> keys, val |-> val, items |-> {}]

\* any other JSON value; items are the identifiers it contains (the string
\* elements of an array, the substrings of a string)
JOther(kind, items) == [kind |-> kind, keys |-> <<>>, val |-> <<>>, items |-> items]

EmptyDict == [keys |-> <<>>, val |-> <<>>]

(* ----------------------- Python operations used ----------------------- *)

\* variant: the key itself is passed as the default
GetWrongDefault(d, k, default) == IF k \in DOMAIN d THEN d[k] ELSE k

\* d.get(k, default) on a dict d
Get(d, k, default) == IF k \in DOMAIN d THEN d[k] ELSE default

\* `name in container`: key test on a dict, element test on a list,
\* substring test on a str, TypeError on int, bool and None
Contains(container, name) ==
    CASE container.kind = "object" ->
            IF name \in Range(container.keys) THEN "yes" ELSE "no"
      [] container.kind \in {"array", "string"} ->
            IF name \in container.items THEN "yes" ELSE "no"
      [] OTHER -> "TypeError"

\* variant: the membership test is made on the registry, not on its servers
FoundTop(reg, name) == IF name \in DOMAIN reg THEN "yes" ELSE "no"

\* line 33: server_name in registry["servers"]
Found(reg, name) == Contains(reg["servers"], name)

\* variant: an identifier is reported once however often it is selected
WarnOnce(err, name) == IF name \in Range(err) THEN err ELSE Append(err, name)

\* line 36: one warning line on standard error, naming the identifier
Warn(err, name) == Append(err, name)

\* container[name] with a str index: defined on a dict only
CanIndex(container) == container.kind = "object"

\* variant: the value of the first entry is taken for every identifier
GetItemFirst(container, name) == container.val[container.keys[1]]

\* line 34, right-hand side: registry["servers"][server_name]
GetItem(container, name) == container.val[name]

\* variant: the servers dict is replaced by a one-entry dict on every hit
SetItemOverwrite(d, k, v) == [keys |-> <<k>>, val |-> [x \in {k} |-> v]]

\* variant: a key assigned again moves to the end (delete, then insert)
SetItemMoveToEnd(d, k, v) ==
    LET Other(x) == x # k
    IN  [keys |-> Append(SelectSeq(d.keys, Other), k),
         val  |-> [x \in (DOMAIN d.val) \cup {k} |-> IF x = k THEN v ELSE d.val[x]]]

\* d[k] = v on a dict: a new key is appended, an existing key keeps its place
SetItem(d, k, v) ==
    IF k \in Range(d.keys)
    THEN [keys |-> d.keys,
          val  |-> [x \in DOMAIN d.val |-> IF x = k THEN v ELSE d.val[x]]]
    ELSE [keys |-> Append(d.keys, k),
          val  |-> [x \in (DOMAIN d.val) \cup {k} |-> IF x = k THEN v ELSE d.val[x]]]

\* sep.join(names)
RECURSIVE Join(_, _)
Join(names, sep) ==
    IF Len(names) = 0 THEN ""
    ELSE IF Len(names) = 1 THEN names[1]
    ELSE names[1] \o sep \o Join(Tail(names), sep)

(* ------------------------ json.dump(obj, f, indent=2) ----------------- *)

Chunk(tag, key, str, val) == [tag |-> tag, key |-> key, str |-> str, val |-> val]

RECURSIVE Entries(_, _)
Entries(keys, val) ==
    IF Len(keys) = 0 THEN <<>>
    ELSE <<Chunk("entry", keys[1], "", val[keys[1]])>> \o Entries(Tail(keys), val)

\* the chunks json.dump writes for the projection, in dict insertion order
Serialize(doc) ==
    <<Chunk("field", "$schema", doc["$schema"], NoVal),
      Chunk("field", "version", doc["version"], NoVal),
      Chunk("field", "last_updated", doc["last_updated"], NoVal),
      Chunk("open", "servers", "", NoVal)>>
    \o Entries(doc["servers"].keys, doc["servers"].val)
    \o <<Chunk("close", "", "", NoVal)>>

OldContent == <<Chunk("old", "", "", NoVal)>>

(* ------------------------------- Init --------------------------------- *)

Unset == [kind |-> "unset", d |-> <<>>]

\* a registry document: top-level keys `top` (strings), and `servers`
Document(top, hasServers, servers) ==
    [kind |-> "dict",
     d |-> [f \in top \cup (IF hasServers THEN {"servers"} ELSE {}) |->
               IF f = "servers" THEN servers ELSE "v-" \o f]]

TopSets == SUBSET (PassFields \cup {"extra"})

\* the top-level key sets combined with every servers mapping; the other key
\* sets are combined with the mappings of at most one entry
CommonTops == {PassFields, {"version", "extra"}}

InitRest ==
    /\ uncommitted_servers \in SelectionLists
    /\ outFile \in {[exists |-> FALSE, content |-> <<>>],
                    [exists |-> TRUE, content |-> OldContent]}
    /\ outFile0 = outFile
    /\ registry = Unset
    /\ uncommitted_registry = <<>>
    /\ i = 0
    /\ pc = "load"
    /\ stderr = <<>>
    /\ stdout = <<>>
    /\ error = "none"
    /\ exitCode = -1
    /\ trace = <<>>

Init ==
    /\ InitRest
    /\ \/ inFile = [kind |-> "missing", doc |-> Unset]
       \/ inFile = [kind |-> "malformed", doc |-> Unset]
       \/ inFile = [kind |-> "json", doc |-> [kind |-> "other", d |-> <<>>]]
       \/ \E top \in TopSets :
            \/ inFile = [kind |-> "json", doc |-> Document(top, FALSE, JOther("null", {}))]
            \/ \E k \in {"number", "bool", "null"} :
                 inFile = [kind |-> "json", doc |-> Document(top, TRUE, JOther(k, {}))]
            \/ \E k \in {"array", "string"}, items \in {{}, {"a"}} :
                 inFile = [kind |-> "json", doc |-> Document(top, TRUE, JOther(k, items))]
            \/ \E keys \in KeyOrders :
                 \E val \in [Range(keys) -> Values] :
                   /\ top \in CommonTops \/ Len(keys) <= 1
                   /\ inFile = [kind |-> "json",
                                doc |-> Document(top, TRUE, JObject(keys, val))]

(* ------------------------------ actions ------------------------------- *)

Fail(exc) ==
    /\ pc' = "failed"
    /\ error' = exc
    /\ exitCode' = 1

\* lines 20-21: open('build/registry.json') raises FileNotFoundError
LoadNotFound ==
    /\ pc = "load"
    /\ inFile.kind = "missing"
    /\ Fail("FileNotFoundError")
    /\ UNCHANGED <<uncommitted_servers, inFile, outFile0, outFile, registry,
                   uncommitted_registry, i, stderr, stdout, trace>>

\* lines 20-21: json.load raises JSONDecodeError
LoadParseError ==
    /\ pc = "load"
    /\ inFile.kind = "malformed"
    /\ trace' = Append(trace, "read")
    /\ Fail("JSONDecodeError")
    /\ UNCHANGED <<uncommitted_servers, inFile, outFile0, outFile, registry,
                   uncommitted_registry, i, stderr, stdout>>

\* lines 20-21: registry = json.load(f)
Load ==
    /\ pc = "load"
    /\ inFile.kind = "json"
    /\ registry' = inFile.doc
    /\ trace' = Append(trace, "read")
    /\ pc' = "construct"
    /\ UNCHANGED <<uncommitted_servers, inFile, outFile0, outFile, uncommitted_registry,
                   i, stderr, stdout, error, exitCode>>

\* lines 24-29: the three passthrough fields and an empty servers dict
Construct ==
    /\ pc = "construct"
    /\ IF registry.kind # "dict"
       THEN /\ Fail("AttributeError")
            /\ UNCHANGED <<uncommitted_registry, i>>
       ELSE /\ uncommitted_registry' =
                 [f \in OutFields |->
                     IF f = "servers" THEN EmptyDict ELSE Get(registry.d, f, "")]
            /\ i' = 1
            /\ pc' = IF Len(uncommitted_servers) = 0 THEN "open" ELSE "project"
            /\ UNCHANGED <<error, exitCode>>
    /\ UNCHANGED <<uncommitted_servers, inFile, outFile0, outFile, registry, stderr, stdout, trace>>

AfterIteration ==
    /\ i' = i + 1
    /\ pc' = IF i + 1 > Len(uncommitted_servers) THEN "open" ELSE "project"
    /\ UNCHANGED <<error, exitCode>>

\* lines 32-36: one iteration of the for loop
ProjectStep ==
    /\ pc = "project"
    /\ i <= Len(uncommitted_servers)
    /\ LET server_name == uncommitted_servers[i] IN
       IF "servers" \notin DOMAIN registry.d
       THEN /\ Fail("KeyError")
            /\ UNCHANGED <<uncommitted_registry, i, stderr, trace>>
       ELSE LET servers == registry.d["servers"]
                found == Found(registry.d, server_name)
            IN  CASE found = "yes" /\ CanIndex(servers) ->
                       /\ uncommitted_registry' =
                            [uncommitted_registry EXCEPT !["servers"] =
                                SetItem(@, server_name, GetItem(servers, server_name))]
                       /\ AfterIteration
                       /\ UNCHANGED <<stderr, trace>>
                  [] found = "no" ->
                       /\ stderr' = Warn(stderr, server_name)
                       /\ trace' = Append(trace, "warn")
                       /\ AfterIteration
                       /\ UNCHANGED uncommitted_registry
                  [] OTHER ->
                       /\ Fail("TypeError")
                       /\ UNCHANGED <<uncommitted_registry, i, stderr, trace>>
    /\ UNCHANGED <<uncommitted_servers, inFile, outFile0, outFile, registry, stdout>>

\* line 40: open(output_file, 'w') truncates or creates the file
Open ==
    /\ pc = "open"
    /\ outFile' = [exists |-> TRUE, content |-> <<>>]
    /\ trace' = Append(trace, "open")
    /\ pc' = "dump"
    /\ UNCHANGED <<uncommitted_servers, inFile, outFile0, registry, uncommitted_registry,
                   i, stderr, stdout, error, exitCode>>

\* line 40: open raises OSError (permissions, missing directory)
OpenFail ==
    /\ pc = "open"
    /\ Fail("OSError")
    /\ UNCHANGED <<uncommitted_servers, inFile, outFile0, outFile, registry,
                   uncommitted_registry, i, stderr, stdout, trace>>

\* line 41: json.dump writes every chunk, the with block closes the file
Dump ==
    /\ pc = "dump"
    /\ outFile' = [exists |-> TRUE, content |-> Serialize(uncommitted_registry)]
    /\ trace' = Append(trace, "write")
    /\ pc' = "report"
    /\ UNCHANGED <<uncommitted_servers, inFile, outFile0, registry, uncommitted_registry,
                   i, stderr, stdout, error, exitCode>>

\* variant: the OSError of a failed write is swallowed and the script goes on
DumpFailSwallowed ==
    /\ pc = "dump"
    /\ \E n \in 0..(Len(Serialize(uncommitted_registry)) - 1) :
         outFile' = [exists |-> TRUE,
                     content |-> SubSeq(Serialize(uncommitted_registry), 1, n)]
    /\ pc' = "report"
    /\ UNCHANGED <<uncommitted_servers, inFile, outFile0, registry, uncommitted_registry,
                   i, stderr, stdout, error, exitCode, trace>>

\* line 41: a write raises OSError (disk full) after n chunks reached the file
DumpFail ==
    /\ pc = "dump"
    /\ \E n \in 0..(Len(Serialize(uncommitted_registry)) - 1) :
         outFile' = [exists |-> TRUE,
                     content |-> SubSeq(Serialize(uncommitted_registry), 1, n)]
    /\ Fail("OSError")
    /\ UNCHANGED <<uncommitted_servers, inFile, outFile0, registry, uncommitted_registry,
                   i, stderr, stdout, trace>>

\* variant: the length of the selection list is printed
SummaryCountSel == Len(uncommitted_servers)

\* line 43: the number printed
SummaryCount == Len(uncommitted_registry["servers"].keys)

\* line 44: the list printed
SummaryList == Join(uncommitted_registry["servers"].keys, ", ")

\* lines 43-44: the two summary lines, then normal exit
Report ==
    /\ pc = "report"
    /\ stdout' = <<<<"Extracted", SummaryCount, "uncommitted servers to", output_file>>,
                   <<"Servers included:", SummaryList>>>>
    /\ trace' = Append(trace, "print")
    /\ pc' = "done"
    /\ exitCode' = 0
    /\ UNCHANGED <<uncommitted_servers, inFile, outFile0, outFile, registry,
                   uncommitted_registry, i, stderr, error>>

Next ==
    \/ LoadNotFound
    \/ LoadParseError
    \/ Load
    \/ Construct
    \/ ProjectStep
    \/ Open
    \/ OpenFail
    \/ Dump
    \/ DumpFail
    \/ Report

Spec == Init /\ [][Next]_vars

(* --------------------------- vocabulary ------------------------------- *)

\* json.load returned a dict whose `servers` is itself a dict
ServersIsMapping ==
    /\ registry.kind = "dict"
    /\ "servers" \in DOMAIN registry.d
    /\ registry.d["servers"].kind = "object"

RServers == registry.d["servers"]

Out == uncommitted_registry["servers"]

\* lines 24-29 have run
Constructed ==
    \/ pc \in {"project", "open", "dump", "report", "done"}
    \/ pc = "failed" /\ error \in {"KeyError", "TypeError", "OSError"}

\* the for loop has processed all of the selection list
LoopDone ==
    \/ pc \in {"open", "dump", "report", "done"}
    \/ pc = "failed" /\ error = "OSError"

FileComplete ==
    /\ outFile.exists
    /\ outFile.content = Serialize(uncommitted_registry)

Present(x) == x \in Range(RServers.keys)

Absent(x) == x \notin Range(RServers.keys)

Count(s, x) == Cardinality({k \in 1..Len(s) : s[k] = x})

\* s without the later occurrences of its elements
RECURSIVE FirstOccurrences(_)
FirstOccurrences(s) ==
    IF Len(s) = 0 THEN <<>>
    ELSE LET init == SubSeq(s, 1, Len(s) - 1)
             last == s[Len(s)]
         IN  IF last \in Range(init) THEN FirstOccurrences(init)
             ELSE Append(FirstOccurrences(init), last)

(* ------------------------------ claims -------------------------------- *)

\* C1: when `servers` is a mapping, after the loop has processed the whole
\* selection list the key set of the output servers mapping is exactly
\* S \cap keys(R.servers): nothing outside S, nothing outside R.servers,
\* nothing of the intersection missing.
C1_KeySetIsIntersection ==
    (LoopDone /\ ServersIsMapping) =>
        /\ Range(Out.keys) = Range(uncommitted_servers) \cap Range(RServers.keys)
        /\ DOMAIN Out.val = Range(Out.keys)

\* C1 witness: a finished loop over a list with one identifier in the registry,
\* one not in it, and a registry entry that was not selected.
C1_Witness ==
    /\ pc = "done"
    /\ ServersIsMapping
    /\ \E x, y \in Range(uncommitted_servers) : Present(x) /\ Absent(y)
    /\ \E z \in Range(RServers.keys) : z \notin Range(uncommitted_servers)

\* C5: the key order of the output servers mapping is the order of first
\* occurrence of the included identifiers in S, whatever the key order of
\* R.servers; an identifier selected several times appears once, at the place
\* of its first occurrence.
C5_FirstOccurrenceOrder ==
    (LoopDone /\ ServersIsMapping) =>
        /\ Out.keys = FirstOccurrences(SelectSeq(uncommitted_servers, Present))
        /\ NoDup(Out.keys)

\* C5 witness: S = x, y, x with both in the registry, where the registry lists
\* y before x.
C5_Witness ==
    /\ pc = "done"
    /\ ServersIsMapping
    /\ Len(uncommitted_servers) = 3
    /\ uncommitted_servers[1] = uncommitted_servers[3]
    /\ uncommitted_servers[1] # uncommitted_servers[2]
    /\ Len(RServers.keys) >= 2
    /\ RServers.keys[1] = uncommitted_servers[2]
    /\ RServers.keys[2] = uncommitted_servers[1]
    /\ Out.keys = <<uncommitted_servers[1], uncommitted_servers[2]>>

\* C6: every identifier in both S and R.servers carries in the output the value
\* it has in R.servers, and the projection leaves the registry as json.load
\* returned it.
C6_ValuesUnchanged ==
    /\ registry.kind # "unset" => registry = inFile.doc
    /\ (Constructed /\ ServersIsMapping) =>
          \A k \in Range(Out.keys) : Out.val[k] = RServers.val[k]

\* C6 witness: two entries with different values were both copied.
C6_Witness ==
    /\ pc = "done"
    /\ ServersIsMapping
    /\ \E x, y \in Range(Out.keys) : Out.val[x] # Out.val[y]

\* C10: when S enumerates exactly the keys of R.servers (a mapping), no warning
\* is emitted and the output servers mapping has the keys and values of
\* R.servers, its key order being that of S.
C10_RoundTrip ==
    (LoopDone /\ ServersIsMapping
        /\ Range(uncommitted_servers) = Range(RServers.keys)) =>
        /\ stderr = <<>>
        /\ Range(Out.keys) = Range(RServers.keys)
        /\ \A k \in Range(RServers.keys) : Out.val[k] = RServers.val[k]
        /\ Out.keys = FirstOccurrences(uncommitted_servers)

\* C10 witness: a full selection of a two-entry registry in the opposite order.
C10_Witness ==
    /\ pc = "done"
    /\ ServersIsMapping
    /\ Range(uncommitted_servers) = Range(RServers.keys)
    /\ Len(RServers.keys) >= 2
    /\ Out.keys # RServers.keys

\* C2: a run that ends with a fatal error leaves the output file either as it
\* was before the run (previous content, or absent) or holding the complete
\* projected document; it never holds a part of the projection.
C2_NoPartialOutput ==
    pc = "failed" => (outFile = outFile0 \/ FileComplete)

\* C3: when the input document has no `servers` field, or one that is not a
\* mapping, the run ends with a fatal error raised in the filtering step: it
\* never gets past the loop, the output file is not written and no summary
\* line is printed.
C3_NonMappingIsFatal ==
    (registry.kind = "dict" /\ ~ServersIsMapping) =>
        /\ pc \in {"construct", "project", "failed"}
        /\ pc = "failed" => error \in {"KeyError", "TypeError"}
        /\ outFile = outFile0
        /\ stdout = <<>>

C7_Passthrough ==
    /\ Constructed =>
          /\ DOMAIN uncommitted_registry = OutFields
          /\ \A f \in PassFields :
                uncommitted_registry[f] =
                    IF f \in DOMAIN registry.d THEN registry.d[f] ELSE ""
    /\ pc \in {"report", "done"} =>
          /\ {c.key : c \in {c \in Range(outFile.content) : c.tag \in {"field", "open"}}}
                = OutFields
          /\ \A c \in Range(outFile.content) :
                c.tag = "field" =>
                    c.str = IF c.key \in DOMAIN registry.d THEN registry.d[c.key] ELSE ""

\* C7 witness: a written document whose input had version and an extra field
\* but no $schema.
C7_Witness ==
    /\ pc = "done"
    /\ {"version", "extra"} \subseteq DOMAIN registry.d
    /\ "$schema" \notin DOMAIN registry.d
    /\ uncommitted_registry["$schema"] = ""
    /\ uncommitted_registry["version"] # ""

Rank(e) ==
    CASE e = "read" -> 1
      [] e = "warn" -> 2
      [] e = "open" -> 3
      [] e = "write" -> 4
      [] e = "print" -> 5

\* C8: the steps run in the order load, project, write, report, each at most
\* once: the input is read once and before any warning, every warning precedes
\* the opening of the output file, the summary is printed only after the
\* output file has been written, and a run that fails prints no summary.
C8_StepOrder ==
    /\ \A m, n \in 1..Len(trace) :
          m < n => /\ Rank(trace[m]) <= Rank(trace[n])
                   /\ trace[m] = trace[n] => trace[m] = "warn"
    /\ Len(trace) > 0 => trace[1] = "read"
    /\ "write" \in Range(trace) => "open" \in Range(trace)
    /\ "print" \in Range(trace) => "write" \in Range(trace) /\ FileComplete
    /\ Count(trace, "warn") = Len(stderr)
    /\ Len(stdout) = IF "print" \in Range(trace) THEN 2 ELSE 0
    /\ pc = "failed" => stdout = <<>>
    /\ pc = "done" => "print" \in Range(trace)

\* C8 witness: a run that read, warned, opened, wrote and reported.
C8_Witness ==
    /\ pc = "done"
    /\ trace = <<"read", "warn", "warn", "open", "write", "print">>

\* C9: in a successful run the printed count is the number of keys of the output
\* servers mapping, that is |S \cap keys(R.servers)|, and the printed list is
\* those keys in selection order joined by ", "; for R.servers = {a, b} and
\* S = [b, c] the count is 1, the list is b, and one warning names c.
C9_Summary ==
    pc = "done" =>
        /\ stdout[1][2] = Len(Out.keys)
        /\ stdout[1][2] =
              Cardinality(Range(uncommitted_servers) \cap Range(RServers.keys))
        /\ stdout[2][2] =
              Join(FirstOccurrences(SelectSeq(uncommitted_servers, Present)), ", ")
        /\ (/\ uncommitted_servers = <<"b", "c">>
            /\ RServers.kind = "object"
            /\ Range(RServers.keys) = {"a", "b"}) =>
                /\ stdout[1][2] = 1
                /\ stdout[2][2] = "b"
                /\ stderr = <<"c">>

\* C9 witness: the run of the example has ended and printed the count 1.
C9_Witness ==
    /\ pc = "done"
    /\ uncommitted_servers = <<"b", "c">>
    /\ RServers.kind = "object"
    /\ Range(RServers.keys) = {"a", "b"}
    /\ stdout[1][2] = 1

====
